---- MODULE Spec2Model ----
(***************************************************************************)
(* scrapy.http.request: the Request value type (constructor, meta and      *)
(* cb_kwargs accessors, replace, copy, to_dict) and _find_method.          *)
(*                                                                         *)
(* Python values are modelled as follows.                                  *)
(*   str / bytes      [t |-> "str" | "bytes", v |-> sequence of tokens];   *)
(*                    a str token is one character, a bytes token one byte *)
(*                    (an ASCII byte is written as its character, a high   *)
(*                    byte as "0xC3"); U00E9 is the one non-ASCII char.    *)
(*   dict, list       a cell of the heap `dicts` / `lists`, named by its   *)
(*                    index: two names are the same object iff equal.      *)
(*   None             NoneRef for a container, t = "NoneType" otherwise.   *)
(*   callable         [kind, self, func]: a plain function has kind        *)
(*                    "function"; a bound method has kind "method", the    *)
(*                    object it is bound to and its __func__.              *)
(***************************************************************************)
EXTENDS Integers, Sequences, FiniteSets, TLC

VARIABLES
    dicts,   \* heap of dict objects: sequence of dict values
    lists,   \* heap of list objects: sequence of list values
    srcs,    \* the containers the caller built itself: [d |-> refs, l |-> refs]
    reqs,    \* the Request instances that exist, in order of construction
    nmut,    \* number of in-place mutations done so far
    last     \* the last call: its operation, arguments and outcome

vars == <<dicts, lists, srcs, reqs, nmut, last>>

\* ---------------------------------------------------------------- bounds
MaxReq == 2
MaxMut == 1

NoneRef == 0

\* ------------------------------------------------------- sequence helpers
RECURSIVE Flatten(_)
Flatten(ss) == IF Len(ss) = 0 THEN <<>> ELSE Head(ss) \o Flatten(Tail(ss))

MapSeq(Op(_), s) == [i \in 1..Len(s) |-> Op(s[i])]

Reverse(s) == [i \in 1..Len(s) |-> s[Len(s) + 1 - i]]

RECURSIVE lstrip(_)
lstrip(s) == IF Len(s) > 0 /\ Head(s) = " " THEN lstrip(Tail(s)) ELSE s

strip(s) == Reverse(lstrip(Reverse(lstrip(s))))

\* str.find: the first index of character c in s, 0 when absent
Find(s, c) ==
    IF \E i \in 1..Len(s) : s[i] = c
    THEN CHOOSE i \in 1..Len(s) : s[i] = c /\ \A j \in 1..(i - 1) : s[j] # c
    ELSE 0

\* pat in s
Contains(s, pat) ==
    \E i \in 1..(Len(s) - Len(pat) + 1) : SubSeq(s, i, i + Len(pat) - 1) = pat

\* s.startswith(pat)
StartsWith(s, pat) == Len(s) >= Len(pat) /\ SubSeq(s, 1, Len(pat)) = pat

\* ------------------------------------------------------------ characters
Lower == <<"a","b","c","d","e","f","g","h","i","j","k","l","m",
           "n","o","p","q","r","s","t","u","v","w","x","y","z">>
Upper == <<"A","B","C","D","E","F","G","H","I","J","K","L","M",
           "N","O","P","Q","R","S","T","U","V","W","X","Y","Z">>

\* str.upper on one character
UpperChar(c) ==
    IF \E i \in 1..Len(Lower) : Lower[i] = c
    THEN Upper[CHOOSE i \in 1..Len(Lower) : Lower[i] = c]
    ELSE c

\* str(method).upper()
upper(s) == MapSeq(UpperChar, s)

NonAscii == {"U00E9"}

\* the bytes of one character in the codec enc
CharBytes(c, enc) ==
    IF c = "U00E9"
    THEN (IF enc = "utf-8" THEN <<"0xC3", "0xA9">> ELSE <<"0xE9">>)
    ELSE <<c>>

\* str.encode(enc)
encode(s, enc) == Flatten([i \in 1..Len(s) |-> CharBytes(s[i], enc)])

\* %XX of one byte
PctByte(b) ==
    CASE b = "0xC3" -> <<"%", "C", "3">>
      [] b = "0xA9" -> <<"%", "A", "9">>
      [] b = "0xE9" -> <<"%", "E", "9">>
      [] b = " "    -> <<"%", "2", "0">>
      [] b = ":"    -> <<"%", "3", "A">>
      [] b = "/"    -> <<"%", "2", "F">>
      [] b = "%"    -> <<"%", "2", "5">>
      [] b = "="    -> <<"%", "3", "D">>
      [] OTHER      -> <<b>>

\* w3lib.url.safe_url_string: surrounding whitespace is stripped, then every
\* character that is not URL-safe (a non-ASCII character, a space) is
\* percent-escaped from its bytes in the request's encoding; characters
\* already safe, "%" included, are kept, so an escaped URL is a fixed point.
safe_url_string(url, enc) ==
    LET s == strip(url)
        Esc(c) == IF c \in NonAscii \/ c = " "
                  THEN Flatten(MapSeq(PctByte, CharBytes(c, enc)))
                  ELSE <<c>>
    IN Flatten([i \in 1..Len(s) |-> Esc(s[i])])

EscapedFragment ==
    <<"_","e","s","c","a","p","e","d","_","f","r","a","g","m","e","n","t","_">>

\* urllib quoting of a query value: the reserved characters are escaped
QuoteValue(s) ==
    LET Q(c) == IF c \in {":", "/", "%", "=", " "} THEN PctByte(c) ELSE <<c>>
    IN Flatten([i \in 1..Len(s) |-> Q(s[i])])

\* scrapy.utils.url.escape_ajax: a fragment that starts with "!" becomes the
\* query parameter _escaped_fragment_ of the defragmented URL; any other URL
\* is returned as it is.
escape_ajax(url) ==
    LET i == Find(url, "#")
        defrag == IF i = 0 THEN url ELSE SubSeq(url, 1, i - 1)
        frag == IF i = 0 THEN <<>> ELSE SubSeq(url, i + 1, Len(url))
        sep == IF Find(defrag, "?") = 0 THEN "?" ELSE "&"
    IN IF ~StartsWith(frag, <<"!">>)
       THEN url
       ELSE defrag \o <<sep>> \o EscapedFragment \o <<"=">>
                   \o QuoteValue(Tail(frag))

\* scrapy.utils.python.to_bytes: bytes are returned as they are, a str is
\* encoded in the given encoding
to_bytes(body, enc) ==
    IF body.t = "bytes" THEN body.v ELSE encode(body.v, enc)

\* ----------------------------------------------------------------- Headers
LowerChar(c) ==
    IF \E i \in 1..Len(Upper) : Upper[i] = c
    THEN Lower[CHOOSE i \in 1..Len(Upper) : Upper[i] = c]
    ELSE c

IsLetter(c) ==
    \E i \in 1..Len(Lower) : Lower[i] = c \/ Upper[i] = c

\* str.title / bytes.title: a letter that starts a word is upper-cased, every
\* other letter lower-cased
title(s) ==
    [i \in 1..Len(s) |->
        IF i = 1 \/ ~IsLetter(s[i - 1]) THEN UpperChar(s[i]) ELSE LowerChar(s[i])]

RECURSIVE HeadersUpdate(_, _, _, _)
\* scrapy.http.headers.Headers.update: every item's key is normalised
\* (title-cased, as bytes) and its values, as bytes in the given encoding,
\* are appended to the values of that key
HeadersUpdate(h, items, isText, enc) ==
    IF Len(items) = 0 THEN h
    ELSE LET key == title(IF isText THEN encode(Head(items)[1], enc)
                          ELSE Head(items)[1])
             vals == [j \in 1..Len(Head(items)[2]) |->
                         IF isText THEN encode(Head(items)[2][j], enc)
                         ELSE Head(items)[2][j]]
             h2 == IF \E i \in 1..Len(h) : h[i][1] = key
                   THEN [i \in 1..Len(h) |->
                            IF h[i][1] = key THEN <<key, h[i][2] \o vals>>
                            ELSE h[i]]
                   ELSE Append(h, <<key, vals>>)
         IN HeadersUpdate(h2, Tail(items), isText, enc)

\* Headers(headers or {}, encoding=encoding): the normalised headers, a
\* sequence of <<key bytes, list of value bytes>>.  The argument is None, a
\* plain dict of str (t = "dict"), a plain dict of bytes keys and lists of
\* bytes (t = "bdict", what dict(Headers) is) or a Headers object.
Headers(h, enc) ==
    IF h.t = "NoneType" THEN <<>>
    ELSE HeadersUpdate(<<>>, h.v, h.t = "dict", enc)

\* ----------------------------------------------------------- callables
NoneCallback == [kind |-> "NoneType", self |-> "", func |-> ""]

\* the module-level function NO_CALLBACK: a plain function, not a method
NO_CALLBACK == [kind |-> "function", self |-> "", func |-> "NO_CALLBACK"]

\* getattr(obj, name) of a method defined by func: a new bound method
BoundMethod(obj, func) == [kind |-> "method", self |-> obj, func |-> func]

\* a str holding a method name (what to_dict stores once resolved)
NameOf(name) == [kind |-> "str", self |-> "", func |-> name]

callable(x) == x.kind \in {"function", "method"}

\* the spider argument of to_dict when absent
NoSpider == "None"

\* The objects of the run: two instances of the spider class MySpider and
\* one of another class.  MySpider defines handle_error, parse and the class
\* attribute extract = parse; OtherSpider defines its own parse.
Objects == {"spider", "spider2", "other"}

\* inspect.getmembers(obj, predicate=inspect.ismethod): the pairs
\* <<name, __func__ of the bound method>>, sorted by name
getmembers(obj) ==
    IF obj \in {"spider", "spider2"}
    THEN << <<"extract", "MySpider.parse">>,
            <<"handle_error", "MySpider.handle_error">>,
            <<"parse", "MySpider.parse">> >>
    ELSE << <<"parse", "OtherSpider.parse">> >>

\* the truth value of the owner object: None is false, a spider is true
\* (scrapy.Spider defines neither __bool__ nor __len__)
Truthy(obj) == obj # NoSpider

\* _find_method as it would be did it not compare the functions
_find_method_unmatched(obj, func) ==
    IF Truthy(obj) /\ func.kind = "method"
    THEN [status |-> "ok", value |-> NameOf(getmembers(obj)[1][1])]
    ELSE [status |-> "ValueError", value |-> func]

\* _find_method(obj, func): the name of the first member of obj whose
\* __func__ is func.__func__, or ValueError
_find_method(obj, func) ==
    LET members == IF Truthy(obj) THEN getmembers(obj) ELSE <<>>
        hit == {i \in 1..Len(members) : members[i][2] = func.func}
    IN IF Truthy(obj) /\ func.kind = "method" /\ hit # {}
       THEN [status |-> "ok",
             value |-> NameOf(members[CHOOSE i \in hit : \A j \in hit : i <= j][1])]
       ELSE [status |-> "ValueError", value |-> func]

\* ------------------------------------------------------------- the urls
Str(v) == [t |-> "str", v |-> v]
Bytes(v) == [t |-> "bytes", v |-> v]
NoneValue == [t |-> "NoneType", v |-> <<>>]
IntVal(n) == [t |-> "int", n |-> n]

UrlHttp == Str(<<"h", "t", "t", "p", ":", "/", "/", "a">>)
UrlAbout == Str(<<"a", "b", "o", "u", "t", ":", "b", "l", "a", "n", "k">>)
UrlData == Str(<<"d", "a", "t", "a", ":", ",", "x">>)
UrlNoScheme == Str(<<"n", "o", "t", "-", "a", "-", "u", "r", "l">>)
UrlAjax == Str(<<"h", "t", "t", "p", ":", "/", "/", "a", "#", "!", "k">>)
UrlAjaxOnly == Str(<<"a", "#", "!", ":", "/", "/">>)
UrlPadded == Str(<<" ", "a", "b", "o", "u", "t", ":", "x">>)
UrlNonAscii == Str(<<"h", "t", "t", "p", ":", "/", "/", "a", "/", "U00E9">>)
UrlFull == Str(<<"h", "t", "t", "p", ":", "/", "/", "a", "/", "U00E9", "#", "!", "k">>)
UrlInt == [t |-> "int", v |-> <<"4", "2">>]

Encodings == {"utf-8", "latin-1"}

\* the url strings given to the constructor in the runs
UrlInputs ==
    {u.v : u \in {UrlHttp, UrlAbout, UrlData, UrlNoScheme, UrlAjax, UrlAjaxOnly,
                  UrlPadded, UrlNonAscii, UrlFull}}

\* the url strings of the runs: the inputs and what they are normalised to
UrlForms ==
    UrlInputs \cup {escape_ajax(safe_url_string(u, e)) : u \in UrlInputs, e \in Encodings}

\* the normal form of every url of the runs in every encoding
NormalForms ==
    [p \in UrlForms \X Encodings |-> escape_ajax(safe_url_string(p[1], p[2]))]

\* -------------------------------------------------------------- Request
\* Request.attributes
attributes ==
    <<"url", "callback", "method", "headers", "body", "cookies", "meta",
      "encoding", "priority", "dont_filter", "errback", "flags", "cb_kwargs">>

AttrNames == {attributes[i] : i \in 1..Len(attributes)}

\* the classes of the run: Request and a subclass that adds nothing
\* (class SubRequest(Request): pass, in module myproject.http)
Classes == {"Request", "SubRequest"}

ClassModule(cls) == IF cls = "Request" THEN "scrapy.http.request" ELSE "myproject.http"

EmptyDict == <<>>

\* the defaults of the parameters of __init__ (url has none)
Defaults ==
    [callback |-> NoneCallback, method |-> <<"G", "E", "T">>, headers |-> NoneValue,
     body |-> NoneValue, cookies |-> NoneRef, meta |-> NoneRef,
     encoding |-> "utf-8", priority |-> IntVal(0), dont_filter |-> FALSE,
     errback |-> NoneCallback, flags |-> NoneRef, cb_kwargs |-> NoneRef]

\* the assignments of __init__, in the order it makes them
InitSteps ==
    <<"_encoding", "method", "_url", "_body", "priority", "callback", "errback",
      "cookies", "headers", "dont_filter", "_meta", "_cb_kwargs", "flags">>

\* an exception leaving __init__: its type, the parameter it is about and
\* the fields assigned before it
Raise(exc, at, n) == [status |-> exc, at |-> at, steps |-> SubSeq(InitSteps, 1, n)]

\* the scheme check of _set_url
SchemeOk(url) ==
    \/ Contains(url, <<":", "/", "/">>)
    \/ StartsWith(url, <<"a", "b", "o", "u", "t", ":">>)
    \/ StartsWith(url, <<"d", "a", "t", "a", ":">>)

\* escape_ajax(safe_url_string(url, enc)), read from the table of the urls
\* of the runs where it has the url
NormalForm(url, enc) ==
    IF <<url, enc>> \in DOMAIN NormalForms THEN NormalForms[<<url, enc>>]
    ELSE escape_ajax(safe_url_string(url, enc))

\* _set_url as it would be without the scheme check
_set_url_unchecked(url, enc) ==
    IF url.t # "str" THEN [status |-> "TypeError", url |-> <<>>]
    ELSE [status |-> "ok", url |-> NormalForm(url.v, enc)]

\* _set_url: the type check, then the normalised url and the scheme check
_set_url(url, enc) ==
    IF url.t # "str" THEN [status |-> "TypeError", url |-> <<>>]
    ELSE LET u == NormalForm(url.v, enc)
         IN [status |-> IF SchemeOk(u) THEN "ok" ELSE "ValueError", url |-> u]

\* _set_body
_set_body(body, enc) == IF body.t = "NoneType" THEN <<>> ELSE to_bytes(body, enc)

\* the truth value of a dict argument: None and the empty dict are false
DictTruthy(ref, ds) == ref # NoneRef /\ DOMAIN ds[ref] # {}

\* the cookies as they would be stored were they copied like meta
CookiesOr_copied(cookies, ds) ==
    [dicts |-> Append(ds, IF DictTruthy(cookies, ds) THEN ds[cookies] ELSE EmptyDict),
     ref |-> Len(ds) + 1]

\* self.cookies = cookies or {}: [the heap, the object stored]
CookiesOr(cookies, ds) ==
    IF DictTruthy(cookies, ds) THEN [dicts |-> ds, ref |-> cookies]
    ELSE [dicts |-> Append(ds, EmptyDict), ref |-> Len(ds) + 1]

\* meta as it would be stored were it not copied: meta or None
DictCopyOrNone_shared(src, ds) ==
    [dicts |-> ds, ref |-> IF DictTruthy(src, ds) THEN src ELSE NoneRef]

\* dict(meta) if meta else None: [the heap, the object stored]
DictCopyOrNone(src, ds) ==
    IF DictTruthy(src, ds) THEN [dicts |-> Append(ds, ds[src]), ref |-> Len(ds) + 1]
    ELSE [dicts |-> ds, ref |-> NoneRef]

\* [] if flags is None else list(flags): [the heap, the object stored]
ListCopy(src, ls) ==
    [lists |-> Append(ls, IF src = NoneRef THEN <<>> ELSE ls[src]),
     ref |-> Len(ls) + 1]

\* Request.__init__ of class cls with the keyword arguments a (every
\* parameter present), on the heaps ds and ls: the exception raised, or the
\* new instance and the heaps after it
__init__(cls, a, ds, ls) ==
    LET enc == a.encoding
        u == _set_url(a.url, enc)
    IN IF u.status = "TypeError" THEN Raise("TypeError", "url", 2)
       ELSE IF u.status = "ValueError" THEN Raise("ValueError", "url", 3)
       ELSE IF a.priority.t # "int" THEN Raise("TypeError", "priority", 4)
       ELSE IF ~(callable(a.callback) \/ a.callback = NoneCallback)
            THEN Raise("TypeError", "callback", 5)
       ELSE IF ~(callable(a.errback) \/ a.errback = NoneCallback)
            THEN Raise("TypeError", "errback", 5)
       ELSE LET c == CookiesOr(a.cookies, ds)
                m == DictCopyOrNone(a.meta, c.dicts)
                k == DictCopyOrNone(a.cb_kwargs, m.dicts)
                f == ListCopy(a.flags, ls)
            IN [status |-> "ok", at |-> "", steps |-> InitSteps,
                dicts |-> k.dicts, lists |-> f.lists,
                req |-> [cls |-> cls,
                         _encoding |-> enc,
                         method |-> upper(a.method),
                         _url |-> u.url,
                         _body |-> _set_body(a.body, enc),
                         priority |-> a.priority,
                         callback |-> a.callback,
                         errback |-> a.errback,
                         cookies |-> c.ref,
                         headers |-> Headers(a.headers, enc),
                         dont_filter |-> a.dont_filter,
                         _meta |-> m.ref,
                         _cb_kwargs |-> k.ref,
                         flags |-> f.ref]]

\* the constructor as it would be were the priority checked on entry
New_priority_first(cls, a, ds, ls) ==
    IF a.priority.t # "int" THEN Raise("TypeError", "priority", 0)
    ELSE __init__(cls, a, ds, ls)

\* cls(**a): a new instance of the class is made and initialised
New(cls, a, ds, ls) == __init__(cls, a, ds, ls)

\* the property as it would be were the field set on every read
Materialize_reset(ref, ds) == [dicts |-> Append(ds, EmptyDict), ref |-> Len(ds) + 1]

\* the property meta (and cb_kwargs): a None field becomes a new empty dict.
\* [the heap, the object returned]
Materialize(ref, ds) ==
    IF ref = NoneRef THEN [dicts |-> Append(ds, EmptyDict), ref |-> Len(ds) + 1]
    ELSE [dicts |-> ds, ref |-> ref]

\* r after r.meta and r.cb_kwargs were read, in the order of attributes
ReadAll(r, ds) ==
    LET m == Materialize(r._meta, ds)
        k == Materialize(r._cb_kwargs, m.dicts)
    IN [dicts |-> k.dicts, req |-> [r EXCEPT !._meta = m.ref, !._cb_kwargs = k.ref]]

\* getattr as it would be were dont_filter not passed on: the new request
\* gets the default
getattr_dropped(r) ==
    [url |-> Str(r._url), callback |-> r.callback, method |-> r.method,
     headers |-> [t |-> "Headers", v |-> r.headers], body |-> Bytes(r._body),
     cookies |-> r.cookies, meta |-> r._meta, encoding |-> r._encoding,
     priority |-> r.priority, dont_filter |-> FALSE,
     errback |-> r.errback, flags |-> r.flags, cb_kwargs |-> r._cb_kwargs]

\* getattr(r, x) for every x of attributes, r's meta and cb_kwargs being
\* materialised
getattr(r) ==
    [url |-> Str(r._url), callback |-> r.callback, method |-> r.method,
     headers |-> [t |-> "Headers", v |-> r.headers], body |-> Bytes(r._body),
     cookies |-> r.cookies, meta |-> r._meta, encoding |-> r._encoding,
     priority |-> r.priority, dont_filter |-> r.dont_filter,
     errback |-> r.errback, flags |-> r.flags, cb_kwargs |-> r._cb_kwargs]

\* kwargs.setdefault(x, value[x]) for every x of attributes
SetDefaults(kwargs, value) ==
    [x \in DOMAIN kwargs \cup AttrNames |->
        IF x \in DOMAIN kwargs THEN kwargs[x] ELSE value[x]]

\* kwargs without the key x
Pop(kwargs, x) == [y \in DOMAIN kwargs \ {x} |-> kwargs[y]]

\* Request.replace(**kwargs) on r: every attribute is read (which
\* materialises meta and cb_kwargs), the ones not given are taken from r,
\* and the class cls, r's own unless given, is constructed.
\* [receiver after the reads, outcome of the construction]
replace(r, kwargs, ds, ls) ==
    LET rd == ReadAll(r, ds)
        merged == SetDefaults(kwargs, getattr(rd.req))
        cls == IF "cls" \in DOMAIN merged THEN merged["cls"] ELSE r.cls
    IN [recv |-> rd.req, dicts |-> rd.dicts,
        res |-> New(cls, Pop(merged, "cls"), rd.dicts, ls)]

\* the value of _class: module + "." + class name
ClassTag(cls) == <<ClassModule(cls), ".", cls>>

\* the resolved callback or errback of to_dict
Resolve(spider, f) ==
    IF callable(f) THEN _find_method(spider, f) ELSE [status |-> "ok", value |-> f]

\* the loop of to_dict as it would be did it assign: d[attr] = getattr(..)
d_setdefault_assigned(d, r) ==
    [x \in DOMAIN d \cup AttrNames |-> IF x \in AttrNames THEN getattr(r)[x] ELSE d[x]]

\* for attr in self.attributes: d.setdefault(attr, getattr(self, attr))
d_setdefault(d, r) == SetDefaults(d, getattr(r))

\* Request.to_dict(spider=spider) on r: the exception raised while the dict
\* literal is built (msg: the function and the object its message names),
\* or the receiver after the reads and the dict returned
to_dict(r, spider, ds) ==
    LET cb == Resolve(spider, r.callback)
        eb == Resolve(spider, r.errback)
    IN IF cb.status # "ok"
       THEN [status |-> cb.status, at |-> "callback", recv |-> r, dicts |-> ds,
             d |-> <<>>, msg |-> <<r.callback, spider>>]
       ELSE IF eb.status # "ok"
       THEN [status |-> eb.status, at |-> "errback", recv |-> r, dicts |-> ds,
             d |-> <<>>, msg |-> <<r.errback, spider>>]
       ELSE LET rd == ReadAll(r, ds)
                d0 == [url |-> Str(r._url), callback |-> cb.value,
                       errback |-> eb.value,
                       headers |-> [t |-> "bdict", v |-> r.headers]]
                d1 == d_setdefault(d0, rd.req)
            IN [status |-> "ok", at |-> "", recv |-> rd.req, dicts |-> rd.dicts,
                msg |-> <<>>,
                d |-> IF r.cls # "Request"
                      THEN ("_class" :> ClassTag(r.cls)) @@ d1
                      ELSE d1]

\* ------------------------------------------------------------- the state
NoCall ==
    [op |-> "none", recv |-> 0, cls |-> "", kwargs |-> <<>>, spider |-> NoSpider,
     status |-> "ok", at |-> "", steps |-> <<>>, new |-> 0, d |-> <<>>,
     msg |-> <<>>]

\* the containers the caller has built before the first request: an empty
\* and a non-empty dict, an empty and a non-empty list
SourceDicts == <<EmptyDict, "k" :> 1>>
SourceLists == <<<<>>, <<"f">>>>

Init ==
    /\ dicts = SourceDicts
    /\ lists = SourceLists
    /\ srcs = [d |-> DOMAIN SourceDicts, l |-> DOMAIN SourceLists]
    /\ reqs = <<>>
    /\ nmut = 0
    /\ last = NoCall

\* cls(**kw) for the classes and keyword arguments D gives
Construct(D) ==
    \E cls \in Classes : \E kw \in D.ctor[cls] :
        /\ Len(reqs) < MaxReq
        /\ LET res == New(cls, SetDefaults(kw, Defaults), dicts, lists)
               ok == res.status = "ok"
           IN /\ dicts' = IF ok THEN res.dicts ELSE dicts
              /\ lists' = IF ok THEN res.lists ELSE lists
              /\ reqs' = IF ok THEN Append(reqs, res.req) ELSE reqs
              /\ last' = [NoCall EXCEPT !.op = "construct", !.cls = cls,
                             !.kwargs = kw, !.status = res.status,
                             !.at = res.at, !.steps = res.steps,
                             !.new = IF ok THEN Len(reqs) + 1 ELSE 0]
              /\ UNCHANGED <<srcs, nmut>>

\* reqs[i].replace(**kw), called as op ("replace" or "copy")
ReplaceCall(op, i, kw) ==
    LET out == replace(reqs[i], kw, dicts, lists)
        res == out.res
        ok == res.status = "ok"
        recvd == [reqs EXCEPT ![i] = out.recv]
    IN /\ Len(reqs) < MaxReq
       /\ dicts' = IF ok THEN res.dicts ELSE out.dicts
       /\ lists' = IF ok THEN res.lists ELSE lists
       /\ reqs' = IF ok THEN Append(recvd, res.req) ELSE recvd
       /\ last' = [NoCall EXCEPT !.op = op, !.recv = i, !.kwargs = kw,
                      !.status = res.status, !.at = res.at, !.steps = res.steps,
                      !.new = IF ok THEN Len(reqs) + 1 ELSE 0]
       /\ UNCHANGED <<srcs, nmut>>

\* r.replace(**kw) for the overrides D gives
Replace(D) ==
    \E i \in 1..Len(reqs), kw \in D.over : ReplaceCall("replace", i, kw)

\* r.copy()
Copy ==
    \E i \in 1..Len(reqs) : ReplaceCall("copy", i, <<>>)

\* r.to_dict(spider=spider) for the spiders D gives
ToDict(D) ==
    \E i \in 1..Len(reqs), spider \in D.spider :
        LET out == to_dict(reqs[i], spider, dicts)
        IN /\ dicts' = out.dicts
           /\ reqs' = [reqs EXCEPT ![i] = out.recv]
           /\ last' = [NoCall EXCEPT !.op = "to_dict", !.recv = i, !.spider = spider,
                          !.status = out.status, !.at = out.at, !.d = out.d,
                          !.msg = out.msg]
           /\ UNCHANGED <<lists, srcs, nmut>>

\* r.meta
AccessMeta ==
    \E i \in 1..Len(reqs) :
        LET m == Materialize(reqs[i]._meta, dicts)
        IN /\ dicts' = m.dicts
           /\ reqs' = [reqs EXCEPT ![i]._meta = m.ref]
           /\ last' = [NoCall EXCEPT !.op = "meta", !.recv = i, !.new = m.ref]
           /\ UNCHANGED <<lists, srcs, nmut>>

\* r.cb_kwargs
AccessCbKwargs ==
    \E i \in 1..Len(reqs) :
        LET m == Materialize(reqs[i]._cb_kwargs, dicts)
        IN /\ dicts' = m.dicts
           /\ reqs' = [reqs EXCEPT ![i]._cb_kwargs = m.ref]
           /\ last' = [NoCall EXCEPT !.op = "cb_kwargs", !.recv = i, !.new = m.ref]
           /\ UNCHANGED <<lists, srcs, nmut>>

\* x["k"] = 2 where x is r.meta, r.cb_kwargs or r.cookies: the property is
\* read (which materialises meta and cb_kwargs) and the dict it returns is
\* changed in place
SetItem ==
    \E i \in 1..Len(reqs), x \in {"meta", "cb_kwargs", "cookies"} :
        LET m == IF x = "meta" THEN Materialize(reqs[i]._meta, dicts)
                 ELSE IF x = "cb_kwargs" THEN Materialize(reqs[i]._cb_kwargs, dicts)
                 ELSE [dicts |-> dicts, ref |-> reqs[i].cookies]
        IN /\ nmut < MaxMut
           /\ nmut' = nmut + 1
           /\ dicts' = [m.dicts EXCEPT ![m.ref] = ("k" :> 2) @@ @]
           /\ reqs' = IF x = "meta" THEN [reqs EXCEPT ![i]._meta = m.ref]
                      ELSE IF x = "cb_kwargs" THEN [reqs EXCEPT ![i]._cb_kwargs = m.ref]
                      ELSE reqs
           /\ last' = [NoCall EXCEPT !.op = "setitem", !.recv = i, !.at = x,
                          !.new = m.ref]
           /\ UNCHANGED <<lists, srcs>>

\* r.flags.append("g")
AppendFlag ==
    \E i \in 1..Len(reqs) :
        /\ nmut < MaxMut
        /\ nmut' = nmut + 1
        /\ lists' = [lists EXCEPT ![reqs[i].flags] = Append(@, "g")]
        /\ last' = [NoCall EXCEPT !.op = "append", !.recv = i, !.at = "flags",
                       !.new = reqs[i].flags]
        /\ UNCHANGED <<dicts, srcs, reqs>>

\* s["k"] = 2 on a dict s the caller built
SetSourceItem ==
    \E s \in srcs.d :
        /\ nmut < MaxMut
        /\ nmut' = nmut + 1
        /\ dicts' = [dicts EXCEPT ![s] = ("k" :> 2) @@ @]
        /\ last' = [NoCall EXCEPT !.op = "setitem", !.at = "source", !.new = s]
        /\ UNCHANGED <<lists, srcs, reqs>>

\* s.append("g") on a list s the caller built
AppendSource ==
    \E s \in srcs.l :
        /\ nmut < MaxMut
        /\ nmut' = nmut + 1
        /\ lists' = [lists EXCEPT ![s] = Append(@, "g")]
        /\ last' = [NoCall EXCEPT !.op = "append", !.at = "source", !.new = s]
        /\ UNCHANGED <<dicts, srcs, reqs>>

\* ------------------------------------------------------------ the inputs
Lambda == [kind |-> "function", self |-> "", func |-> "lambda"]
HeadersDict ==
    [t |-> "dict", v |-> << <<<<"a", "c", "c", "e", "p", "t">>, <<<<"U00E9">>>>>> >>]
HeadersDict2 ==
    [t |-> "dict", v |-> << <<<<"A", "C", "C", "E", "P", "T">>, <<<<"x">>, <<"y">>>>>> >>]

\* the keyword-argument dicts that give the one argument x a value of V
Single(x, V) == {x :> v : v \in V}

\* a request with every argument left to its default, and one with none
FullKwargs ==
    [url |-> UrlFull, callback |-> BoundMethod("spider", "MySpider.parse"),
     method |-> <<"p", "o", "s", "t">>, headers |-> HeadersDict,
     body |-> Str(<<"U00E9">>), cookies |-> 2, meta |-> 2, encoding |-> "latin-1",
     priority |-> IntVal(1), dont_filter |-> TRUE,
     errback |-> BoundMethod("spider", "MySpider.handle_error"), flags |-> 2,
     cb_kwargs |-> 2]

\* the overrides of the lifecycle runs: for every attribute, each kind of
\* value its parameter takes (None, empty, non-empty; valid and not)
LifeOverrides ==
    Single("url", {UrlAbout, UrlNoScheme, UrlNonAscii, UrlInt})
    \cup Single("callback", {NoneCallback, Lambda, NameOf("parse")})
    \cup Single("method", {<<"p", "u", "t">>})
    \cup Single("headers", {NoneValue, HeadersDict2})
    \cup Single("body", {NoneValue, Str(<<"x", "U00E9">>), Bytes(<<"x">>)})
    \cup Single("cookies", {NoneRef, 1, 2})
    \cup Single("meta", {NoneRef, 1, 2})
    \cup Single("encoding", Encodings)
    \cup Single("priority", {IntVal(5), [t |-> "str", n |-> 1]})
    \cup Single("dont_filter", {FALSE, TRUE})
    \cup Single("errback", {NoneCallback, Lambda, NameOf("parse")})
    \cup Single("flags", {NoneRef, 1, 2})
    \cup Single("cb_kwargs", {NoneRef, 1, 2})
    \cup Single("cls", Classes)
    \cup {[url |-> UrlNonAscii, encoding |-> "latin-1"],
          [body |-> Str(<<"U00E9">>), encoding |-> "latin-1"],
          [method |-> <<"p", "u", "t">>, meta |-> 2, flags |-> 1]}

DomLife ==
    [ctor |-> [cls \in Classes |->
                  IF cls = "Request" THEN {[url |-> UrlHttp], [url |-> UrlAjax]}
                  ELSE {FullKwargs}],
     over |-> LifeOverrides]

Next ==
    \/ Construct(DomLife)
    \/ Replace(DomLife)
    \/ Copy

Spec == Init /\ [][Next]_vars

\* ------------------------------------------------------------ the claims
\* the value of a dict attribute as its accessor shows it
ObsDict(ref, ds) == IF ref = NoneRef THEN EmptyDict ELSE ds[ref]

\* the values of the declared attributes of r
Obs(r, ds, ls) ==
    [url |-> r._url, callback |-> r.callback, method |-> r.method,
     headers |-> r.headers, body |-> r._body, cookies |-> ds[r.cookies],
     meta |-> ObsDict(r._meta, ds), encoding |-> r._encoding,
     priority |-> r.priority, dont_filter |-> r.dont_filter,
     errback |-> r.errback, flags |-> ls[r.flags],
     cb_kwargs |-> ObsDict(r._cb_kwargs, ds)]

\* what the constructor makes of the value v given for attribute x, in the
\* encoding enc
Normalized(x, v, enc, ds, ls) ==
    CASE x = "url" -> NormalForm(v.v, enc)
      [] x = "method" -> upper(v)
      [] x = "headers" -> Headers(v, enc)
      [] x = "body" -> _set_body(v, enc)
      [] x \in {"cookies", "meta", "cb_kwargs"} -> ObsDict(v, ds)
      [] x = "flags" -> (IF v = NoneRef THEN <<>> ELSE ls[v])
      [] OTHER -> v

\* C1: a replace (or copy) that returns gives a new instance, not the
\* receiver, of the class asked for; each overridden attribute holds the
\* override as the constructor normalises it and every other declared
\* attribute equals the receiver's; copy is replace with no override.
C1_ReplaceKeepsAttributes ==
    (last.op \in {"replace", "copy"} /\ last.status = "ok") =>
        LET r == reqs[last.recv]
            n == reqs[last.new]
            kw == last.kwargs
        IN /\ last.new \in 1..Len(reqs)
           /\ last.new # last.recv
           /\ last.op = "copy" => DOMAIN kw = {}
           /\ n.cls = IF "cls" \in DOMAIN kw THEN kw["cls"] ELSE r.cls
           /\ \A x \in AttrNames :
                Obs(n, dicts, lists)[x] =
                    IF x \in DOMAIN kw
                    THEN Normalized(x, kw[x], n._encoding, dicts, lists)
                    ELSE Obs(r, dicts, lists)[x]

\* a request with no argument at its default was replaced with overrides
C1_Witness ==
    /\ last.op = "replace"
    /\ last.status = "ok"
    /\ DOMAIN last.kwargs = {"method", "meta", "flags"}
    /\ reqs[last.recv].dont_filter
    /\ reqs[last.recv]._meta # NoneRef
    /\ dicts[reqs[last.recv]._meta] # EmptyDict

\* --------------------------------------------- the receiver of the calls
NotCallable == NameOf("parse")
NotInt == [t |-> "str", n |-> 1]

DomFrame ==
    [ctor |-> [cls \in Classes |->
                  IF cls = "Request" THEN {[url |-> UrlHttp]} ELSE {FullKwargs}],
     over |-> {[url |-> UrlNoScheme], [priority |-> NotInt],
               [method |-> <<"p", "u", "t">>], [meta |-> 2]},
     spider |-> {NoSpider, "spider"}]

NextFrame ==
    \/ Construct(DomFrame)
    \/ Replace(DomFrame)
    \/ Copy
    \/ ToDict(DomFrame)
    \/ AccessMeta
    \/ AccessCbKwargs

SpecFrame == Init /\ [][NextFrame]_vars

\* r without the two lazily set fields
Eager(r) == [r EXCEPT !._meta = NoneRef, !._cb_kwargs = NoneRef]

\* a lazily set field either is what it was or was None and is a new, empty
\* dict
OnlyMaterialized(old, new) ==
    new # old => (old = NoneRef /\ new > Len(dicts) /\ dicts'[new] = EmptyDict)

\* C9: replace, copy and to_dict, returning or raising, leave every declared
\* attribute value of the receiver as it was; of its fields only a meta or
\* cb_kwargs that was None changes, to a new empty dict.
C9_ReceiverUnchanged ==
    [][last'.op \in {"replace", "copy", "to_dict"} =>
          LET i == last'.recv
          IN /\ Obs(reqs'[i], dicts', lists') = Obs(reqs[i], dicts, lists)
             /\ Eager(reqs'[i]) = Eager(reqs[i])
             /\ OnlyMaterialized(reqs[i]._meta, reqs'[i]._meta)
             /\ OnlyMaterialized(reqs[i]._cb_kwargs, reqs'[i]._cb_kwargs)]_vars

\* a replace raised on a receiver whose meta holds something, and left the
\* receiver's cb_kwargs, read by it, an empty dict
C9_Witness ==
    /\ last.op = "replace"
    /\ last.status = "ValueError"
    /\ reqs[last.recv]._meta # NoneRef
    /\ dicts[reqs[last.recv]._meta] # EmptyDict
    /\ reqs[last.recv]._cb_kwargs # NoneRef

\* ------------------------------------------------- the url and the checks
UrlCtor ==
    Single("url", {UrlHttp, UrlAbout, UrlData, UrlNoScheme, UrlAjax, UrlAjaxOnly,
                   UrlPadded, UrlInt})
    \cup {[url |-> UrlNonAscii, encoding |-> "latin-1"]}

DomUrl ==
    [ctor |-> [cls \in Classes |-> IF cls = "Request" THEN UrlCtor ELSE {}],
     over |-> Single("url", {UrlNoScheme, UrlAbout, UrlAjaxOnly, UrlInt})
              \cup {[url |-> UrlNonAscii, encoding |-> "latin-1"]},
     spider |-> {NoSpider}]

NextUrl ==
    \/ Construct(DomUrl)
    \/ Replace(DomUrl)
    \/ Copy
    \/ ToDict(DomUrl)
    \/ AccessMeta

SpecUrl == Init /\ [][NextUrl]_vars

\* the arguments the constructor got in the last call: the keyword arguments
\* of a construction over the defaults, those of a replace over the
\* receiver's attributes
LastArgs ==
    IF last.op = "construct" THEN SetDefaults(last.kwargs, Defaults)
    ELSE SetDefaults(last.kwargs, getattr(ReadAll(reqs[last.recv], dicts).req))

\* the url contains "://" or starts with "about:" or "data:"
HasScheme(url) ==
    \/ \E i \in 1..(Len(url) - 2) : url[i] = ":" /\ url[i + 1] = "/" /\ url[i + 2] = "/"
    \/ (Len(url) >= 6 /\ SubSeq(url, 1, 6) = <<"a", "b", "o", "u", "t", ":">>)
    \/ (Len(url) >= 5 /\ SubSeq(url, 1, 5) = <<"d", "a", "t", "a", ":">>)

\* C6: the url of every request that exists has a scheme; a construction or
\* replace given a str url whose normal form has none raises ValueError and
\* makes no request; the url about:blank alone makes one.
C6_UrlHasScheme ==
    /\ \A i \in 1..Len(reqs) : HasScheme(reqs[i]._url)
    /\ (last.op \in {"construct", "replace"} /\ LastArgs.url.t = "str") =>
          LET u == escape_ajax(safe_url_string(LastArgs.url.v, LastArgs.encoding))
          IN /\ ~HasScheme(u) =>
                    (last.status = "ValueError" /\ last.at = "url" /\ last.new = 0)
             /\ last.kwargs = [url |-> UrlAbout] =>
                    (last.status = "ok" /\ reqs[last.new]._url = UrlAbout.v)

\* a replace was given a url with "://" only in its fragment and raised,
\* and the request it was called on is there, read since
C6_Witness ==
    /\ last.op = "replace"
    /\ last.kwargs = [url |-> UrlAjaxOnly]
    /\ last.status = "ValueError"
    /\ Len(reqs) = 1
    /\ reqs[1]._meta # NoneRef

\* ------------------------------------------------ the constructor's checks
\* arguments with no, one and several faults
FaultCtor ==
    Single("url", {UrlHttp, UrlNoScheme, UrlInt})
    \cup {[url |-> u, priority |-> NotInt] : u \in {UrlHttp, UrlNoScheme, UrlInt}}
    \cup {[url |-> u, callback |-> NotCallable] : u \in {UrlHttp, UrlNoScheme}}
    \cup {[url |-> UrlHttp, errback |-> NotCallable],
          [url |-> UrlHttp, callback |-> NotCallable, errback |-> NotCallable],
          [url |-> UrlHttp, priority |-> NotInt, callback |-> NotCallable],
          [url |-> UrlHttp, priority |-> NotInt, errback |-> NotCallable],
          [url |-> UrlAjax, priority |-> IntVal(5), callback |-> Lambda,
           errback |-> NO_CALLBACK]}

DomCtor ==
    [ctor |-> [cls \in Classes |->
                  IF cls = "Request" THEN FaultCtor
                  ELSE {[url |-> UrlAbout], [url |-> UrlAbout, priority |-> NotInt]}],
     over |-> Single("url", {UrlData, UrlNoScheme, UrlInt})
              \cup {[priority |-> NotInt], [callback |-> NotCallable],
                    [errback |-> NotCallable],
                    [url |-> UrlNoScheme, priority |-> NotInt],
                    [url |-> UrlInt, priority |-> NotInt],
                    [priority |-> NotInt, errback |-> NotCallable]}]

NextCtor ==
    \/ Construct(DomCtor)
    \/ Replace(DomCtor)

SpecCtor == Init /\ [][NextCtor]_vars

\* the arguments with a fault of type
TypeFaults(a) ==
    {x \in {"url", "priority", "callback", "errback"} :
        \/ x = "url" /\ a.url.t # "str"
        \/ x = "priority" /\ a.priority.t # "int"
        \/ x = "callback" /\ ~(callable(a.callback) \/ a.callback = NoneCallback)
        \/ x = "errback" /\ ~(callable(a.errback) \/ a.errback = NoneCallback)}

\* C7 as stated: an argument with a type fault makes the constructor raise
\* the TypeError of a faulty argument, whatever the other arguments are.
C7_TypeErrorFirst ==
    (last.op = "construct" /\ TypeFaults(LastArgs) # {}) =>
        /\ last.status = "TypeError"
        /\ last.at \in TypeFaults(LastArgs)

\* C7: the constructor stores the encoding and the method, checks the type
\* of the url and then its scheme, sets the body, then checks the priority,
\* the callback and the errback: the exception raised is that of the first
\* of these checks that fails, the fields assigned are those before it, and
\* a call none of them fails returns.
C7_ChecksInOrder ==
    (last.op \in {"construct", "replace"}) =>
        LET a == LastArgs
            f == TypeFaults(a)
            noScheme ==
                a.url.t = "str"
                /\ ~HasScheme(escape_ajax(safe_url_string(a.url.v, a.encoding)))
            Raised(exc, at, n) ==
                /\ last.status = exc
                /\ last.at = at
                /\ last.steps = SubSeq(InitSteps, 1, n)
                /\ last.new = 0
        IN CASE "url" \in f -> Raised("TypeError", "url", 2)
             [] noScheme -> Raised("ValueError", "url", 3)
             [] "url" \notin f /\ ~noScheme /\ "priority" \in f ->
                    Raised("TypeError", "priority", 4)
             [] "url" \notin f /\ ~noScheme /\ "priority" \notin f
                /\ "callback" \in f -> Raised("TypeError", "callback", 5)
             [] "url" \notin f /\ ~noScheme /\ "priority" \notin f
                /\ "callback" \notin f /\ "errback" \in f ->
                    Raised("TypeError", "errback", 5)
             [] OTHER -> last.status = "ok" /\ last.new = Len(reqs)

\* a url without a scheme and a priority that is no integer were given, and
\* the ValueError of the url was raised
C7_Witness ==
    /\ last.op = "construct"
    /\ last.kwargs = [url |-> UrlNoScheme, priority |-> NotInt]
    /\ last.status = "ValueError"

\* ---------------------------------------------------- the containers
DomAlias ==
    [ctor |-> [cls \in Classes |->
                  IF cls = "Request"
                  THEN {[url |-> UrlHttp],
                        [url |-> UrlHttp, cookies |-> 1],
                        [url |-> UrlHttp, cookies |-> 2],
                        [url |-> UrlHttp, meta |-> 1, cb_kwargs |-> 1, flags |-> 1],
                        [url |-> UrlHttp, meta |-> 2, cb_kwargs |-> 2, flags |-> 2]}
                  ELSE {}],
     over |-> Single("cookies", {NoneRef, 2}) \cup Single("meta", {2})
              \cup Single("flags", {2}) \cup {[method |-> <<"p", "u", "t">>]}]

NextAlias ==
    \/ Construct(DomAlias)
    \/ Replace(DomAlias)
    \/ Copy
    \/ SetItem
    \/ AppendFlag
    \/ SetSourceItem
    \/ AppendSource

SpecAlias == Init /\ [][NextAlias]_vars

\* the meta, cb_kwargs and flags objects of the requests are not objects the
\* caller built, and no two requests have the same meta, cb_kwargs or flags
\* object
OwnContainers ==
    \A i \in 1..Len(reqs) :
        /\ reqs[i]._meta \notin srcs.d
        /\ reqs[i]._cb_kwargs \notin srcs.d
        /\ reqs[i].flags \notin srcs.l
        /\ \A j \in 1..Len(reqs) :
              j # i =>
                 /\ reqs[i]._meta # NoneRef => reqs[j]._meta # reqs[i]._meta
                 /\ reqs[i]._cb_kwargs # NoneRef =>
                        reqs[j]._cb_kwargs # reqs[i]._cb_kwargs
                 /\ reqs[j].flags # reqs[i].flags

\* the values of meta, cb_kwargs and flags of r
Annotations(r, ds, ls) ==
    [meta |-> ObsDict(r._meta, ds), cb_kwargs |-> ObsDict(r._cb_kwargs, ds),
     flags |-> ls[r.flags]]

\* C2: the meta, cb_kwargs and flags of a request are objects of its own,
\* neither one the caller built (empty or not) nor one of another request;
\* changing one in place changes no source and no meta, cb_kwargs or flags
\* of another request, and changing a source or a request's cookies changes
\* no request's meta, cb_kwargs or flags.
C2_NoSharedContainers ==
    [][/\ OwnContainers'
       /\ last'.op \in {"setitem", "append"} =>
             /\ \A j \in 1..Len(reqs), x \in {"meta", "cb_kwargs", "flags"} :
                   (j # last'.recv \/ x # last'.at) =>
                       Annotations(reqs'[j], dicts', lists')[x]
                           = Annotations(reqs[j], dicts, lists)[x]
             /\ last'.at \in {"meta", "cb_kwargs", "flags"} =>
                   /\ \A s \in srcs.d : dicts'[s] = dicts[s]
                   /\ \A s \in srcs.l : lists'[s] = lists[s]]_vars

\* the meta of a copy of a request built from the non-empty source was
\* changed in place
C2_Witness ==
    /\ last.op = "setitem"
    /\ last.at = "meta"
    /\ last.recv = 2
    /\ reqs[1]._meta # NoneRef
    /\ dicts[reqs[1]._meta] = SourceDicts[2]
    /\ dicts[reqs[2]._meta] # SourceDicts[2]

\* C10: a non-empty cookies dict is stored as it is: a request built with
\* one holds that object, and a copy or a replace without a cookies
\* override holds the receiver's; given no cookies, None or an empty dict,
\* the request holds a new empty dict that nothing else holds.
C10_CookiesShared ==
    (last.op \in {"construct", "replace", "copy"} /\ last.status = "ok") =>
        LET n == reqs[last.new]
            given == IF "cookies" \in DOMAIN last.kwargs THEN last.kwargs["cookies"]
                     ELSE IF last.op = "construct" THEN NoneRef
                     ELSE reqs[last.recv].cookies
        IN IF given # NoneRef /\ dicts[given] # EmptyDict
           THEN n.cookies = given
           ELSE /\ n.cookies # given
                /\ dicts[n.cookies] = EmptyDict
                /\ n.cookies \notin srcs.d
                /\ \A j \in 1..Len(reqs) :
                      /\ n.cookies \notin {reqs[j]._meta, reqs[j]._cb_kwargs}
                      /\ j # last.new => reqs[j].cookies # n.cookies

\* a request built with the non-empty source as cookies was copied, and the
\* cookies of the source, the request and its copy are one object
C10_Witness ==
    /\ last.op = "copy"
    /\ last.status = "ok"
    /\ reqs[last.recv].cookies = 2
    /\ reqs[last.new].cookies = 2
    /\ 2 \in srcs.d

\* ------------------------------------------------------ the serialized
\* getattr(spider, name) of scrapy.utils.request._get_method: the method of
\* that name, bound to spider
_get_method(spider, name) ==
    LET members == getmembers(spider)
        i == CHOOSE j \in 1..Len(members) : members[j][1] = name.func
    IN BoundMethod(spider, members[i][2])

\* the class a _class tag names
load_object(tag) == tag[3]

\* scrapy.utils.request.request_from_dict(d, spider=spider): the class is
\* the one _class names (Request without it), its arguments are the items
\* of d whose key is a declared attribute, a callback or errback name being
\* replaced by the method of that name of spider
request_from_dict(d, spider, ds, ls) ==
    LET cls == IF "_class" \in DOMAIN d THEN load_object(d["_class"]) ELSE "Request"
        named(x) == d[x].kind = "str" /\ Truthy(spider)
        kwargs == [x \in DOMAIN d \cap AttrNames |->
                      IF x \in {"callback", "errback"} /\ named(x)
                      THEN _get_method(spider, d[x])
                      ELSE d[x]]
    IN New(cls, kwargs, ds, ls)

\* request_from_dict(d, spider=spider) on the dict d the last to_dict
\* returned, with the spider it was given
FromDict ==
    /\ last.op = "to_dict"
    /\ last.status = "ok"
    /\ Len(reqs) < MaxReq
    /\ LET res == request_from_dict(last.d, last.spider, dicts, lists)
           ok == res.status = "ok"
       IN /\ dicts' = IF ok THEN res.dicts ELSE dicts
          /\ lists' = IF ok THEN res.lists ELSE lists
          /\ reqs' = IF ok THEN Append(reqs, res.req) ELSE reqs
          /\ last' = [NoCall EXCEPT !.op = "from_dict", !.recv = last.recv,
                         !.spider = last.spider, !.status = res.status,
                         !.at = res.at, !.steps = res.steps,
                         !.new = IF ok THEN Len(reqs) + 1 ELSE 0]
          /\ UNCHANGED <<srcs, nmut>>

\* requests with each kind of callback and errback: none, the sentinel, a
\* plain function, a method of each object
DomDict ==
    [ctor |-> [cls \in Classes |->
                  IF cls = "Request"
                  THEN {[url |-> UrlHttp]}
                       \cup {[url |-> UrlHttp, callback |-> c] :
                                c \in {NO_CALLBACK, Lambda,
                                       BoundMethod("spider", "MySpider.parse"),
                                       BoundMethod("spider2", "MySpider.parse"),
                                       BoundMethod("other", "OtherSpider.parse")}}
                       \cup {[url |-> UrlHttp, errback |-> c] :
                                c \in {BoundMethod("spider", "MySpider.handle_error"),
                                       BoundMethod("other", "OtherSpider.parse")}}
                       \cup {[url |-> UrlHttp,
                              callback |-> BoundMethod("spider", "MySpider.parse"),
                              errback |-> BoundMethod("other", "OtherSpider.parse")]}
                  ELSE {FullKwargs,
                        [url |-> UrlAjax, headers |-> HeadersDict2,
                         body |-> Str(<<"x">>), meta |-> 2]}],
     spider |-> {NoSpider, "spider", "other"}]

NextDict ==
    \/ Construct(DomDict)
    \/ ToDict(DomDict)
    \/ FromDict

SpecDict == Init /\ [][NextDict]_vars

\* the three requests of the round trip: no callback, the sentinel as
\* callback, a method of the spider given as callback; no errback
RoundTripCase(r, spider) ==
    /\ r.errback = NoneCallback
    /\ \/ r.callback = NoneCallback
       \/ r.callback = NO_CALLBACK
       \/ r.callback.kind = "method" /\ r.callback.self = spider

\* C3: for a request with no callback, with NO_CALLBACK as callback or with
\* a method of the spider given as callback, to_dict returns a dict, and
\* request_from_dict on that dict returns a request whose declared
\* attributes, callback and errback included, equal the first one's.
C3_RoundTrip ==
    /\ (last.op = "to_dict" /\ RoundTripCase(reqs[last.recv], last.spider)) =>
          /\ last.status = "ok"
          /\ DOMAIN last.d # {}
    /\ (last.op = "from_dict" /\ RoundTripCase(reqs[last.recv], last.spider)) =>
          /\ last.status = "ok"
          /\ Obs(reqs[last.new], dicts, lists) = Obs(reqs[last.recv], dicts, lists)
          /\ reqs[last.new].cls = reqs[last.recv].cls

\* C4: to_dict without a spider on a request whose callback or errback is
\* callable returns a dict that holds the callable itself under callback
\* (errback): no name is looked up and nothing is raised.
C4_StoredAsIs ==
    (/\ last.op = "to_dict"
     /\ last.spider = NoSpider
     /\ callable(reqs[last.recv].callback) \/ callable(reqs[last.recv].errback)) =>
        /\ last.status = "ok"
        /\ DOMAIN last.d # {}
        /\ last.d["callback"] = reqs[last.recv].callback
        /\ last.d["errback"] = reqs[last.recv].errback

\* the names of the methods of obj whose function is the one of f
Matches(obj, f) ==
    {getmembers(obj)[i][1] : i \in {j \in 1..Len(getmembers(obj)) :
                                       getmembers(obj)[j][2] = f.func}}

\* C5: to_dict with a spider, on a request whose callback or errback is a
\* bound method the function of which is the function of no method of the
\* spider, raises ValueError naming that function and the spider and returns
\* no dict; when it returns one, a bound method was stored as the name of a
\* method of the spider with the same function, whatever object the method
\* was bound to.
C5_ResolvedByFunction ==
    (last.op = "to_dict" /\ last.spider # NoSpider) =>
        LET r == reqs[last.recv]
            unmatched(f) == f.kind = "method" /\ Matches(last.spider, f) = {}
        IN /\ unmatched(r.callback) =>
                 /\ last.status = "ValueError"
                 /\ last.at = "callback"
                 /\ last.msg = <<r.callback, last.spider>>
                 /\ last.d = <<>>
           /\ unmatched(r.errback) =>
                 /\ last.status = "ValueError"
                 /\ last.d = <<>>
                 /\ (callable(r.callback) => Matches(last.spider, r.callback) # {}) =>
                        /\ last.at = "errback"
                        /\ last.msg = <<r.errback, last.spider>>
           /\ \A x \in {"callback", "errback"} :
                 (last.status = "ok" /\ r[x].kind = "method") =>
                     /\ last.d[x].kind = "str"
                     /\ last.d[x].func \in Matches(last.spider, r[x])
           /\ (/\ \A x \in {"callback", "errback"} :
                     r[x].kind = "method" => Matches(last.spider, r[x]) # {}
               /\ \A x \in {"callback", "errback"} : r[x].kind # "function") =>
                 last.status = "ok"

\* a method of spider2 was resolved on spider, another instance of its
\* class, and a method of another class was not
C5_Witness ==
    /\ last.op = "to_dict"
    /\ last.spider = "spider"
    /\ last.status = "ok"
    /\ reqs[last.recv].callback.self = "spider2"
    /\ last.d["callback"].kind = "str"
    /\ \E i \in 1..Len(reqs) :
          /\ reqs[i].callback.kind = "method"
          /\ Matches("spider", reqs[i].callback) = {}

\* C8: the keys of the dict to_dict returns are the declared attributes,
\* and _class exactly when the class of the request is not Request itself;
\* _class holds module.ClassName of that class, and url, callback, errback
\* and headers hold what was written first (the url, the names found, the
\* headers as a plain dict), not the attribute's value.
C8_DictShape ==
    (last.op = "to_dict" /\ last.status = "ok") =>
        LET r == reqs[last.recv]
            d == last.d
        IN /\ DOMAIN d = AttrNames \cup (IF r.cls # "Request" THEN {"_class"} ELSE {})
           /\ {"url", "headers", "callback", "errback"} \subseteq AttrNames
           /\ r.cls # "Request" => d["_class"] = <<ClassModule(r.cls), ".", r.cls>>
           /\ d["url"] = Str(r._url)
           /\ d["headers"] = [t |-> "bdict", v |-> r.headers]
           /\ \A x \in {"callback", "errback"} :
                 IF callable(r[x]) THEN d[x].kind = "str" ELSE d[x] = r[x]
           /\ \A x \in AttrNames \ {"url", "headers", "callback", "errback"} :
                 d[x] = getattr(r)[x]

\* a request of the subclass with headers and a callback was serialized
C8_Witness ==
    /\ last.op = "to_dict"
    /\ last.status = "ok"
    /\ reqs[last.recv].cls = "SubRequest"
    /\ reqs[last.recv].headers # <<>>
    /\ callable(reqs[last.recv].callback)
    /\ "_class" \in DOMAIN last.d

====
